---- MODULE Spec2Model ----
(***************************************************************************)
(* Vote submission pipeline of the mobile voting client:                   *)
(*   VoteSubmissionService  (src/services/vote-submission.service.ts)      *)
(*   RealBlockchainService  (src/lib/blockchain/real-blockchain-service.ts)*)
(* Every invocation of submitVote is an asynchronous task; one action of   *)
(* the model is the code a task runs between two awaits on an external     *)
(* collaborator (timer, HTTP fetch, chain RPC, transaction inclusion).     *)
(***************************************************************************)
EXTENDS Integers, Sequences, FiniteSets, TLC

(* ------------------------------ bounds --------------------------------- *)
\* calls of submitVote made by the caller (the UI)
MaxSubmits == 2
\* invocations of submitVote in all, retries included
MaxCalls == 5
\* the same two bounds for the runs of SpecRace: more callers, fewer retries
RaceSubmits == 3
RaceCalls == 3
\* invocations of submitVote that have not returned yet
MaxInFlight == 2
\* departures from the plain run, in all: advances of the clock past the
\* validity window, failures of a collaborator (fetch, chain query,
\* transaction, backend), calls of cancelSubmission, draws of Math.random()
\* that repeat an earlier draw, and requests that are not fresh and well-formed
MaxDisturbances == 1
\* direct calls of submitToBackend in the runs of SpecBackend
MaxConfirms == 2
\* calls of verifyBiometricForVoting in the runs of SpecBiometric
MaxVerifications == 2
\* calls of registerService, and of updateAllServices and refreshAllServices,
\* in the runs of SpecApi
MaxRegistrations == 2
MaxUpdates == 3
\* network states NetInfo reports, and calls of saveConfig, in the runs of
\* SpecNetwork
MaxChanges == 3
MaxConfigs == 1
MaxForceScans == 1
\* calls of initialize and of stop in the runs of SpecMonitor
MaxInitializes == 4
MaxStops == 2
\* calls of login, register, logout and refreshToken in the runs of SpecAuth
MaxAuthCalls == 3
\* calls of clearOldSubmissions, and callers and calls of submitVote, in the
\* runs of SpecClear
MaxClears == 1
ClearSubmits == 2
ClearCalls == 3
\* calls of the useVoting hook's castVote, and callers and calls of
\* submitVote, in the runs of SpecHook
MaxHookCalls == 1
HookSubmits == 1
HookCalls == 3

(* ------------------------- program constants --------------------------- *)
maxRetries == 3
retryDelay == 5000
maxAge == 5 * 60 * 1000
\* one advance of the clock: it ages a fresh request past maxAge
TickMs == maxAge + 1

\* JavaScript's undefined for an optional field; a present value v is <<v>>
Undefined == << >>
Some(v) == << v >>

Voters == {"v1", "v2"}
\* the address of the wallet the backend profile of a voter holds
WalletOf(v) == IF v = "v1" THEN "w1" ELSE "w2"
NoWallet == "null"

VARIABLES
    now,               \* Date.now()
    submissionQueue,   \* Map submissionId -> request
    statusCache,       \* Map submissionId -> VoteSubmissionStatus
    retryAttempts,     \* Map submissionId -> number
    timers,            \* pending setTimeout callbacks of submitVote's catch
    tasks,             \* the invocations of submitVote, in order of call
    wallet,            \* RealBlockchainService.wallet (the signer)
    voters,            \* ledger: addresses a for which voters(a) is true
    voted,             \* ledger: addresses whose vote transaction is included
    height,            \* ledger: number of included transactions
    ticks,             \* advances of the clock so far
    faults,            \* failures injected so far
    cancels,           \* cancellations so far
    bound,             \* the bounds of this run on callers' calls and calls in all
    backendCalls,      \* the calls of submitToBackend made directly (SpecBackend)
    verifications,     \* the calls of verifyBiometricForVoting (SpecBiometric)
    apiManager,        \* the DynamicApiManager singleton (SpecApi)
    detector,          \* the AutoNetworkDetector singleton (SpecNetwork)
    clears,            \* the calls of clearOldSubmissions (SpecClear)
    hookCalls,         \* the calls of useVoting's castVote (SpecHook)
    monitor,           \* the AutoNetworkDetector's NetInfo subscription (SpecMonitor)
    authStore          \* the auth store with its calls in flight (SpecAuth)

vars == << now, submissionQueue, statusCache, retryAttempts, timers, tasks,
           wallet, voters, voted, height, ticks, faults, cancels, bound,
           backendCalls, verifications, apiManager, detector, clears, hookCalls, monitor, authStore >>

\* the variables of the later specifications
moreVars == << clears, hookCalls, monitor, authStore >>

\* what the vote submission pipeline and the biometric service work on
pipelineVars == << now, submissionQueue, statusCache, retryAttempts, timers, tasks,
                  wallet, voters, voted, height, ticks, faults, cancels, bound,
                  backendCalls, verifications >>

serviceVars == << submissionQueue, statusCache, retryAttempts, timers >>
ledgerVars == << voters, voted, height >>
clockVars == << now, ticks, bound, backendCalls, verifications, apiManager,
               detector, moreVars >>

(* ------------------------------ requests ------------------------------- *)
ValidCode == << 1, 2, 3, 4, 5, 6 >>
ShortCode == << 1, 2, 3, 4, 5 >>

BaseRequest(v, t) ==
    [ electionId |-> "e1", candidateId |-> "1", voterId |-> v,
      verificationCode |-> ValidCode, biometricHash |-> "h", deviceId |-> "d",
      timestamp |-> t, voterAddress |-> "",
      \* (hist) when the verification code and the biometric hash were taken;
      \* VoteSubmissionRequest has no field for it
      capturedAt |-> t ]

\* a fresh, well-formed request of each voter
FreshRequests(t) == { BaseRequest(v, t) : v \in Voters }

\* the request useVoting's castVote hands to submitVote (part_010 174-181):
\* electionId, candidateId, voterId, voterAddress, token and timestamp; the
\* verification code, the biometric hash and the device id are undefined
\* (user.wallet_address || '' for the address)
HookRequest(v, t, hasAddress) ==
    [BaseRequest(v, t) EXCEPT
        !.verificationCode = << >>, !.biometricHash = "", !.deviceId = "",
        !.voterAddress = IF hasAddress THEN WalletOf(v) ELSE ""]
HookRequests(t) ==
    { HookRequest(v, t, hasAddress) : v \in Voters, hasAddress \in BOOLEAN }

\* requests that differ from a fresh, well-formed one in one respect
VariantRequests(t) ==
    { [BaseRequest("v1", t) EXCEPT !.voterAddress = WalletOf("v1")],
      [BaseRequest("v1", t) EXCEPT !.capturedAt = t - maxAge - 1],
      [BaseRequest("v1", t) EXCEPT !.timestamp = t - maxAge - 1,
                                   !.capturedAt = t - maxAge - 1],
      [BaseRequest("v1", t) EXCEPT !.timestamp = t - maxAge],
      [BaseRequest("v1", t) EXCEPT !.candidateId = ""],
      [BaseRequest("v1", t) EXCEPT !.verificationCode = ShortCode],
      [BaseRequest("v1", t) EXCEPT !.deviceId = ""],
      [BaseRequest("v1", t) EXCEPT !.candidateId = "abc"] }

\* parseInt(candidateId): a number, or NaN
ParseInt(s) == IF s = "1" THEN Some(1) ELSE Undefined

(* ------------------------------- Map ----------------------------------- *)
MapSet(m, k, v) == (k :> v) @@ m
MapDelete(m, k) == [ x \in (DOMAIN m) \ {k} |-> m[x] ]
MapGet(m, k, dflt) == IF k \in DOMAIN m THEN m[k] ELSE dflt

(* ----------------------------- messages -------------------------------- *)
MsgMissing == "Missing required fields"
MsgCode == "Invalid verification code"
MsgCreds == "Missing security credentials"
MsgExpired == "Submission expired"
MsgVotedDb == "User has already voted in this election"
MsgVotedChain == "You have already voted in this election on the blockchain"
MsgInfra == "Failed to get election details"
MsgWallet == "Failed to connect wallet"
MsgRegistration == "Voter registration failed"
MsgCast == "Vote casting failed"
MsgCandidate == "Vote casting failed: Invalid candidate ID"
MsgBackend == "Backend service unavailable"

ValidationMsgs == { MsgMissing, MsgCode, MsgCreds, MsgExpired, MsgVotedDb }

(* --------------------------- VoteSubmissionService --------------------- *)
\* `vote_${timestamp.toString(36)}_${random}`: equal ids have equal parts
generateSubmissionId(request, random) == << request.timestamp, random >>

\* Math.random() of generateSubmissionId: a value not drawn before for this
\* timestamp, or one that was (the ids then collide)
UsedRandoms(ts) ==
    { tasks[i].id[2] : i \in { j \in DOMAIN tasks : tasks[j].id[1] = ts } }
Collisions == Len(tasks) - Cardinality({ tasks[i].id : i \in DOMAIN tasks })
Variants ==
    Cardinality({ i \in DOMAIN tasks :
        /\ tasks[i].attempt = 1
        /\ tasks[i].req \notin FreshRequests(tasks[i].startedAt)
                              \cup HookRequests(tasks[i].startedAt) })
Disturbances == ticks + faults + cancels + Collisions + Variants

Randoms(request, attempt) ==
    LET ts == request.timestamp
        variant == IF /\ attempt = 1
                      /\ request \notin FreshRequests(now) \cup HookRequests(now)
                   THEN 1 ELSE 0
    IN  IF Disturbances + variant < MaxDisturbances
        THEN 1 .. (Cardinality(UsedRandoms(ts)) + 1)
        ELSE { Cardinality(UsedRandoms(ts)) + 1 }

InFlight == Cardinality({ i \in DOMAIN tasks : tasks[i].pc # "done" })
CanStart == Len(tasks) < bound.calls /\ InFlight < MaxInFlight

\* the environment lets a collaborator call fail, within its budget
Inject(failed) ==
    /\ failed => Disturbances < MaxDisturbances
    /\ faults' = IF failed THEN faults + 1 ELSE faults

\* the entry submitVote puts in statusCache (absent fields are undefined)
NewStatus(id) ==
    [ voteId |-> id, status |-> "pending", submittedAt |-> now,
      transactionHash |-> Undefined, blockNumber |-> Undefined,
      confirmationCount |-> Undefined, confirmedAt |-> Undefined,
      error |-> Undefined ]

updateStatus(cache, voteId, status, updates) ==
    IF voteId \in DOMAIN cache
    THEN [cache EXCEPT ![voteId] = updates @@ [status |-> status] @@ @]
    ELSE cache

\* the record, or null
getSubmissionStatus(cache, voteId) ==
    IF voteId \in DOMAIN cache THEN Some(cache[voteId]) ELSE Undefined

NoResponse == [ success |-> FALSE, voteId |-> Undefined,
                transactionHash |-> Undefined, blockNumber |-> Undefined,
                confirmationId |-> Undefined, error |-> Undefined,
                retryAfter |-> Undefined ]

\* (hist) an earlier attempt for the request's electionId and voterId has a
\* record in statusCache that reads confirmed
HasConfirmed(request) ==
    \E j \in DOMAIN tasks :
        /\ tasks[j].req.electionId = request.electionId
        /\ tasks[j].req.voterId = request.voterId
        /\ tasks[j].pc = "done" /\ tasks[j].resp.success
        /\ tasks[j].id \in DOMAIN statusCache
        /\ statusCache[tasks[j].id].status = "confirmed"

\* a task: the locals of one submitVote invocation and, marked (hist), the
\* history of the attempt that the properties below refer to
NewTask(request, id, attempt, root) ==
    [ pc |-> "validate", req |-> request, id |-> id,
      address |-> NoWallet,          \* walletInfo.address
      transactionHash |-> Undefined, \* blockchainResult.transactionHash
      blockNumber |-> Undefined,     \* blockchainResult.blockNumber
      blockchainResult |-> Undefined, \* what submitToBlockchain resolved to
      backendResult |-> Undefined,   \* what submitToBackend resolved to
      resp |-> NoResponse,           \* the value submitVote resolves to
      attempt |-> attempt,           \* (hist) 1 for the caller's call, +1 per retry
      root |-> root,                 \* (hist) the caller's call this one retries
      startedAt |-> now,             \* (hist) Date.now() when the attempt began
      hadConfirmed |-> HasConfirmed(request),  \* (hist) the pair had voted by then
      log |-> << >>,                 \* (hist) the collaborator calls made, with outcomes
      txs |-> 0,                     \* (hist) ledger transactions sent
      signer |-> NoWallet,           \* (hist) the address that signed the vote
      scheduled |-> Undefined,       \* (hist) delay of the retry timer that was set
      endRecord |-> Undefined ]      \* (hist) getSubmissionStatus(id) at return

\* (hist) the attempt called a collaborator, with this outcome
Logged(tk, call, outcome) == [tk EXCEPT !.log = Append(@, << call, outcome >>)]

Put(s, i, v) == IF i = Len(s) + 1 THEN Append(s, v) ELSE [s EXCEPT ![i] = v]

\* line 130: every error is retried while the counter of this id allows
ShouldRetry(errorMessage, retryCount) == retryCount < maxRetries

\* the value submitVote's catch block resolves to (lines 138-142, 149-152)
FailureResponse(tk, errorMessage, retryAfter) ==
    [NoResponse EXCEPT !.error = Some(errorMessage), !.retryAfter = retryAfter]

\* a success response without the backend's confirmation id
SuccessResponseUnconfirmed(tk, confirmationId) ==
    [NoResponse EXCEPT !.success = TRUE,
                       !.voteId = Some(tk.id),
                       !.transactionHash = tk.transactionHash,
                       !.blockNumber = tk.blockNumber]
\* the value submitVote resolves to on success (lines 113-120)
SuccessResponse(tk, confirmationId) ==
    [NoResponse EXCEPT !.success = TRUE,
                       !.voteId = Some(tk.id),
                       !.transactionHash = tk.transactionHash,
                       !.blockNumber = tk.blockNumber,
                       !.confirmationId = Some(confirmationId)]

\* submitVote's catch block (lines 122-153) for task number t with locals tk,
\* entered with the queue and the cache as the try block left them and with
\* the timers `pending`
Catch(t, tk, queue, cache, pending, errorMessage) ==
    LET id == tk.id
        cache1 == updateStatus(cache, id, "failed", [error |-> Some(errorMessage)])
        retryCount == MapGet(retryAttempts, id, 0)
    IN  /\ statusCache' = cache1
        /\ IF ShouldRetry(errorMessage, retryCount)
           THEN /\ retryAttempts' = MapSet(retryAttempts, id, retryCount + 1)
                /\ timers' = pending \cup
                       { [ id |-> id, delay |-> retryDelay * (retryCount + 1), by |-> t ] }
                /\ submissionQueue' = queue
                /\ tasks' = Put(tasks, t,
                       [tk EXCEPT !.pc = "done",
                          !.scheduled = Some(retryDelay * (retryCount + 1)),
                          !.endRecord = getSubmissionStatus(cache1, id),
                          !.resp = FailureResponse(tk, errorMessage,
                                       Some(retryDelay * (retryCount + 1)))])
           ELSE /\ retryAttempts' = MapDelete(retryAttempts, id)
                /\ timers' = pending
                /\ submissionQueue' = MapDelete(queue, id)
                /\ tasks' = Put(tasks, t,
                       [tk EXCEPT !.pc = "done",
                          !.endRecord = getSubmissionStatus(cache1, id),
                          !.resp = FailureResponse(tk, errorMessage, Undefined)])

\* the same checks without the one on the timestamp
ValidateFieldsAnyAge(request, time) ==
    IF request.electionId = "" \/ request.candidateId = "" \/ request.voterId = ""
    THEN Some(MsgMissing)
    ELSE IF Len(request.verificationCode) # 6
    THEN Some(MsgCode)
    ELSE IF request.biometricHash = "" \/ request.deviceId = ""
    THEN Some(MsgCreds)
    ELSE Undefined
\* the checks validateSubmission makes before its first await (lines 177-195)
ValidateFields(request, time) ==
    IF request.electionId = "" \/ request.candidateId = "" \/ request.voterId = ""
    THEN Some(MsgMissing)
    ELSE IF Len(request.verificationCode) # 6
    THEN Some(MsgCode)
    ELSE IF request.biometricHash = "" \/ request.deviceId = ""
    THEN Some(MsgCreds)
    ELSE IF time - request.timestamp > maxAge
    THEN Some(MsgExpired)
    ELSE Undefined

\* submitVote up to the first await that waits on a collaborator: lines 65-76,
\* then validateSubmission as far as checkExistingVote's timer
Begin(request, attempt, root, pending) ==
    \E random \in Randoms(request, attempt) :
        LET id == generateSubmissionId(request, random)
            t == Len(tasks) + 1
            tk == NewTask(request, id, attempt, root)
            queue == MapSet(submissionQueue, id, request)
            cache == MapSet(statusCache, id, NewStatus(id))
            invalid == ValidateFields(request, now)
        IN  IF invalid # Undefined
            THEN Catch(t, Logged(tk, "validateSubmission", "invalid"),
                       queue, cache, pending, invalid[1])
            ELSE /\ submissionQueue' = queue
                 /\ statusCache' = cache
                 /\ tasks' = Append(tasks, tk)
                 /\ timers' = pending
                 /\ UNCHANGED retryAttempts

\* the requests a caller hands to submitVote at time t
RequestsAt(t) ==
    FreshRequests(t) \cup
    (IF Disturbances < MaxDisturbances THEN VariantRequests(t) ELSE {})

\* a call of submitVote by the UI
SubmitVote ==
    /\ CanStart
    /\ Cardinality({ i \in DOMAIN tasks : tasks[i].attempt = 1 }) < bound.submits
    /\ \E request \in RequestsAt(now) : Begin(request, 1, Len(tasks) + 1, timers)
    /\ UNCHANGED << wallet, ledgerVars, clockVars, faults, cancels >>

\* the setTimeout callback of line 134: retrySubmission(submissionId)
RetrySubmission ==
    /\ \E tm \in timers :
          IF tm.id \in DOMAIN submissionQueue
          THEN /\ CanStart
               /\ Begin(submissionQueue[tm.id], tasks[tm.by].attempt + 1,
                        tasks[tm.by].root, timers \ {tm})
          ELSE /\ timers' = timers \ {tm}
               /\ UNCHANGED << submissionQueue, statusCache, retryAttempts, tasks >>
    /\ UNCHANGED << wallet, ledgerVars, clockVars, faults, cancels >>

checkExistingVote(electionId, voterId) == FALSE

\* validateSubmission from checkExistingVote on (lines 197-241), then lines
\* 80-85 of submitVote. With a voterAddress in the request the ledger is asked
\* through hasVoterVoted; `reached` is whether the election fetch and the
\* chain query both answered (hasVoterVoted resolves to false on an RPC
\* error, a fetch error is caught)
ValidateSubmission(t) ==
    /\ tasks[t].pc = "validate"
    /\ \E reached \in BOOLEAN :
        LET tk == tasks[t]
            hasVoted == checkExistingVote(tk.req.electionId, tk.req.voterId)
            hasVotedOnBlockchain ==
                /\ tk.req.voterAddress # ""
                /\ tk.req.electionId # ""
                /\ reached
                /\ tk.req.voterAddress \in voters
        IN  /\ (tk.req.voterAddress = "" => reached)
            /\ Inject(~reached)
            /\ IF hasVoted
               THEN Catch(t, Logged(tk, "validateSubmission", "invalid"),
                          submissionQueue, statusCache, timers, MsgVotedDb)
               ELSE IF hasVotedOnBlockchain
               THEN Catch(t, Logged(Logged(tk, "hasVoterVoted", "true"),
                                    "validateSubmission", "invalid"),
                          submissionQueue, statusCache, timers, MsgVotedChain)
               ELSE /\ statusCache' = updateStatus(statusCache, tk.id, "processing", << >>)
                    /\ tasks' = [tasks EXCEPT ![t] =
                           [Logged(tk, "validateSubmission", "valid") EXCEPT
                               !.pc = "connect"]]
                    /\ UNCHANGED << submissionQueue, retryAttempts, timers >>
    /\ UNCHANGED << wallet, ledgerVars, clockVars, cancels >>

\* a failure result that carries no message
submitToBlockchainCaughtSilent(errorMessage) ==
    [ success |-> FALSE, error |-> Undefined ]
\* the catch block of submitToBlockchain (351-357)
submitToBlockchainCaught(errorMessage) ==
    [ success |-> FALSE, error |-> Some(errorMessage) ]

\* a throw inside submitToBlockchain: the call resolves to the catch block's
\* result, and line 91 of submitVote throws its error
BlockchainFailed(tk, errorMessage) ==
    [tk EXCEPT !.blockchainResult = Some(submitToBlockchainCaught(errorMessage))]

\* submitToBlockchain, lines 257-302: the two backend fetches, then
\* connectWallet (real-blockchain-service.ts 213-237), which sets the shared
\* signer before it awaits the address and the balance
ConnectWallet(t) ==
    /\ tasks[t].pc = "connect"
    /\ \E outcome \in { "ok", "fetchFailed", "balanceFailed" } :
        LET tk == tasks[t]
            address == WalletOf(tk.req.voterId)
        IN  /\ Inject(outcome # "ok")
            /\ CASE outcome = "fetchFailed" ->
                     /\ wallet' = wallet
                     /\ Catch(t, BlockchainFailed(Logged(tk, "fetch", "failed"), MsgInfra),
                              submissionQueue, statusCache, timers, MsgInfra)
                [] outcome = "balanceFailed" ->
                     /\ wallet' = address
                     /\ Catch(t, BlockchainFailed(Logged(tk, "connectWallet", "failed"), MsgWallet),
                              submissionQueue, statusCache, timers, MsgWallet)
                [] outcome = "ok" ->
                     /\ wallet' = address
                     /\ tasks' = [tasks EXCEPT ![t] =
                            [Logged(tk, "connectWallet", "ok") EXCEPT
                                !.pc = "hasVoted", !.address = address]]
                     /\ UNCHANGED serviceVars
    /\ UNCHANGED << ledgerVars, clockVars, cancels >>

\* RealBlockchainService.hasVoterVoted and isVoterRegistered (370-414): both
\* read voters(address) and both resolve to false when the query throws
QueryVoters(address, rpcOk) == rpcOk /\ address \in voters
\* (hist) what the query is logged as
Answer(address, rpcOk) ==
    IF ~rpcOk THEN "error" ELSE IF address \in voters THEN "true" ELSE "false"

\* the duplicate-vote answer ignored
AfterHasVotedIgnored(hasVotedOnBlockchain) == "isRegistered"
\* line 307: an identity that has voted ends the attempt
AfterHasVoted(hasVotedOnBlockchain) ==
    IF hasVotedOnBlockchain THEN "throw" ELSE "isRegistered"
\* line 316: an unregistered identity is registered first
AfterIsRegistered(isRegistered) ==
    IF isRegistered THEN "castVote" ELSE "register"
\* the registration result ignored
AfterRegistrationIgnored(success) == "castVote"
\* line 320: a failed registration ends the attempt
AfterRegistration(success) ==
    IF success THEN "castVote" ELSE "throw"

\* the result of the vote transaction ignored
AfterCastVoteIgnored(success) == "backend"
\* lines 335-337 and 90-92: a vote that failed ends the attempt, one that
\* succeeded is confirmed to the backend
AfterCastVote(success) ==
    IF success THEN "backend" ELSE "throw"

\* lines 304-311 of submitToBlockchain
CheckHasVoted(t) ==
    /\ tasks[t].pc = "hasVoted"
    /\ \E rpcOk \in BOOLEAN :
        LET tk == tasks[t]
            hasVotedOnBlockchain == QueryVoters(tk.address, rpcOk)
        IN  /\ Inject(~rpcOk)
            /\ IF AfterHasVoted(hasVotedOnBlockchain) = "throw"
               THEN Catch(t, BlockchainFailed(
                                 Logged(tk, "hasVoterVoted", Answer(tk.address, rpcOk)),
                                 MsgVotedChain),
                          submissionQueue, statusCache, timers, MsgVotedChain)
               ELSE /\ tasks' = [tasks EXCEPT ![t] =
                           [Logged(tk, "hasVoterVoted", Answer(tk.address, rpcOk))
                               EXCEPT !.pc = AfterHasVoted(hasVotedOnBlockchain)]]
                    /\ UNCHANGED serviceVars
    /\ UNCHANGED << wallet, ledgerVars, clockVars, cancels >>

\* lines 313-316 of submitToBlockchain
CheckRegistered(t) ==
    /\ tasks[t].pc = "isRegistered"
    /\ \E rpcOk \in BOOLEAN :
        LET isRegistered == QueryVoters(tasks[t].address, rpcOk)
        IN  /\ Inject(~rpcOk)
            /\ tasks' = [tasks EXCEPT ![t] =
                   [Logged(tasks[t], "isVoterRegistered", Answer(tasks[t].address, rpcOk))
                       EXCEPT !.pc = AfterIsRegistered(isRegistered)]]
    /\ UNCHANGED << serviceVars, wallet, ledgerVars, clockVars, cancels >>

(* ------------------------------ the ledger ----------------------------- *)
\* The election contract (ABI, real-blockchain-service.ts 77-120).
\* registerVoter(a), once included, makes voters(a) true. Inclusion can fail
\* (revert, congestion, RPC error): that is the chain's choice.
RegisterOutcomes(signer) == BOOLEAN
\* vote(candidateId): the chain records one vote per signing address and
\* reverts a second one; otherwise inclusion is again the chain's choice
VoteOutcomes(signer) == IF signer \in voted THEN { FALSE } ELSE BOOLEAN

\* lines 316-325 of submitToBlockchain with registerVoter (242-279): the
\* transaction is signed by, and registers, the service's current wallet
RegisterVoter(t) ==
    /\ tasks[t].pc = "register"
    /\ \E accepted \in RegisterOutcomes(wallet) :
        LET sent == wallet # NoWallet
            success == sent /\ accepted
            tk == [Logged(tasks[t], "registerVoter", IF success THEN "ok" ELSE "failed")
                      EXCEPT !.txs = IF sent THEN @ + 1 ELSE @]
        IN  /\ (~sent => accepted)
            /\ Inject(sent /\ ~accepted)
            /\ voters' = IF success THEN voters \cup { wallet } ELSE voters
            /\ height' = IF success THEN height + 1 ELSE height
            /\ IF AfterRegistration(success) = "throw"
               THEN Catch(t, BlockchainFailed(tk, MsgRegistration),
                          submissionQueue, statusCache, timers, MsgRegistration)
               ELSE /\ tasks' = [tasks EXCEPT ![t] =
                           [tk EXCEPT !.pc = AfterRegistration(success)]]
                    /\ UNCHANGED serviceVars
    /\ UNCHANGED << wallet, voted, clockVars, cancels >>

\* lines 327-350 of submitToBlockchain with castVote (284-331): the vote is
\* signed by the service's current wallet; the receipt gives hash and block
CastVote(t) ==
    /\ tasks[t].pc = "castVote"
    /\ \E accepted \in VoteOutcomes(wallet) :
        LET candidateId == ParseInt(tasks[t].req.candidateId)
            sent == wallet # NoWallet /\ candidateId # Undefined
            success == sent /\ accepted
            tk == [Logged(tasks[t], "castVote", IF success THEN "ok" ELSE "failed")
                      EXCEPT !.txs = IF sent THEN @ + 1 ELSE @,
                             !.signer = IF sent THEN wallet ELSE @]
        IN  /\ (~sent => ~accepted)
            /\ Inject(sent /\ ~accepted /\ wallet \notin voted)
            /\ voted' = IF success THEN voted \cup { wallet } ELSE voted
            /\ height' = IF success THEN height + 1 ELSE height
            /\ IF AfterCastVote(success) = "backend"
               THEN /\ tasks' = [tasks EXCEPT ![t] =
                           [tk EXCEPT !.pc = "backend",
                                      !.blockchainResult =
                                          Some([ success |-> TRUE, error |-> Undefined ]),
                                      !.transactionHash = Some(height + 1),
                                      !.blockNumber = Some(height + 1)]]
                    /\ UNCHANGED serviceVars
               ELSE LET errorMessage ==
                            IF candidateId = Undefined THEN MsgCandidate ELSE MsgCast
                    IN  Catch(t, BlockchainFailed(tk, errorMessage),
                              submissionQueue, statusCache, timers, errorMessage)
    /\ UNCHANGED << wallet, voters, clockVars, cancels >>

\* submitToBackend (363-389) called when Date.now() is `time`; isSuccess is
\* Math.random() > 0.02
submitToBackend(request, transactionHash, time, isSuccess) ==
    IF isSuccess
    THEN [ success |-> TRUE,
           confirmationId |-> Some(<< "confirm", time, request.candidateId >>),
           error |-> Undefined ]
    ELSE [ success |-> FALSE, confirmationId |-> Undefined,
           error |-> Some(MsgBackend) ]

\* the await of line 95, then lines 97-120 of submitVote
SubmitToBackend(t) ==
    /\ tasks[t].pc = "backend"
    /\ \E isSuccess \in BOOLEAN :
        LET backendResult ==
                submitToBackend(tasks[t].req, tasks[t].transactionHash, now, isSuccess)
            tk == [Logged(tasks[t], "submitToBackend",
                          IF isSuccess THEN "ok" ELSE "failed")
                      EXCEPT !.backendResult =
                          Some([ success |-> backendResult.success,
                                 error |-> backendResult.error ])]
            cache == updateStatus(statusCache, tk.id, "confirmed",
                        [ transactionHash |-> tk.transactionHash,
                          blockNumber |-> tk.blockNumber,
                          confirmationCount |-> Some(1),
                          confirmedAt |-> Some(now) ])
        IN  /\ Inject(~isSuccess)
            /\ IF isSuccess
               THEN /\ statusCache' = cache
                    /\ submissionQueue' = MapDelete(submissionQueue, tk.id)
                    /\ retryAttempts' = MapDelete(retryAttempts, tk.id)
                    /\ timers' = timers
                    /\ tasks' = [tasks EXCEPT ![t] =
                           [tk EXCEPT !.pc = "done",
                              !.endRecord = getSubmissionStatus(cache, tk.id),
                              !.resp = SuccessResponse(tk,
                                           backendResult.confirmationId[1])]]
               ELSE Catch(t, tk, submissionQueue, statusCache, timers,
                          backendResult.error[1])
    /\ UNCHANGED << wallet, ledgerVars, clockVars, cancels >>

\* a cancelSubmission that sets the status and leaves the queue as it is
CancelSubmissionStatusOnly ==
    /\ Disturbances < MaxDisturbances
    /\ cancels' = cancels + 1
    /\ \E voteId \in DOMAIN statusCache :
        /\ voteId \in DOMAIN submissionQueue
        /\ statusCache' = updateStatus(statusCache, voteId, "rejected", << >>)
    /\ UNCHANGED << submissionQueue, retryAttempts, timers, tasks, wallet,
                    ledgerVars, clockVars, faults >>
\* cancelSubmission (419-427), for a voteId the caller holds; a call for a
\* voteId that is not in the queue returns false and changes nothing
CancelSubmission ==
    /\ Disturbances < MaxDisturbances
    /\ cancels' = cancels + 1
    /\ \E voteId \in DOMAIN statusCache :
        /\ voteId \in DOMAIN submissionQueue
        /\ submissionQueue' = MapDelete(submissionQueue, voteId)
        /\ retryAttempts' = MapDelete(retryAttempts, voteId)
        /\ statusCache' = updateStatus(statusCache, voteId, "rejected", << >>)
    /\ UNCHANGED << timers, tasks, wallet, ledgerVars, clockVars, faults >>

(* --------------------------- DynamicApiManager ------------------------- *)
ServiceNames == { "api", "auth" }
Urls == { "u1", "u2" }

\* the singleton after its constructor, with loadCurrentUrl still waiting
\* for storage; (hist) calls are the calls of updateAllServices and
\* refreshAllServices with what they returned and what held at the return
NewDynamicApiManager ==
    [ services |-> << >>, currentBaseUrl |-> "", isUpdating |-> FALSE,
      loaded |-> FALSE, registrations |-> 0, calls |-> << >>,
      lastSet |-> "" ]   \* (hist) the URL the last update that changed it set

\* (hist) a call that has returned
Returned(manager, method, url, result) ==
    [ method |-> method, url |-> url, returned |-> TRUE, result |-> result,
      services |-> manager.services, currentBaseUrl |-> manager.currentBaseUrl ]

\* updateAllServices as far as its await of line 79; updateBaseUrl throws
\* for the services in `threw`
updateAllServices(manager, method, newBaseUrl, threw) ==
    IF manager.isUpdating
    THEN [manager EXCEPT !.calls =
             Append(@, Returned(manager, method, newBaseUrl, FALSE))]
    ELSE IF manager.currentBaseUrl = newBaseUrl
    THEN [manager EXCEPT !.calls =
             Append(@, Returned(manager, method, newBaseUrl, TRUE))]
    ELSE [manager EXCEPT
             !.isUpdating = TRUE,
             !.services = [ n \in DOMAIN manager.services |->
                              IF n \in threw THEN manager.services[n]
                              ELSE newBaseUrl ],
             !.currentBaseUrl = newBaseUrl,
             !.lastSet = newBaseUrl,
             !.calls = Append(@, [ method |-> method, url |-> newBaseUrl,
                                   returned |-> FALSE, result |-> FALSE,
                                   services |-> << >>, currentBaseUrl |-> "" ])]

\* loadCurrentUrl (101-117): the saved or the discovered URL, if any
LoadCurrentUrl ==
    /\ ~apiManager.loaded
    /\ \E url \in Urls \cup { "" } :
          apiManager' = [apiManager EXCEPT
              !.loaded = TRUE,
              !.currentBaseUrl = IF url = "" THEN @ ELSE url]
    /\ UNCHANGED << pipelineVars, detector, moreVars >>

\* registerService (34-37) with a service that has a base URL of its own
RegisterService ==
    /\ apiManager.registrations < MaxRegistrations
    /\ \E serviceName \in ServiceNames, url \in Urls :
          apiManager' = [apiManager EXCEPT
              !.registrations = @ + 1,
              !.services = MapSet(@, serviceName, url)]
    /\ UNCHANGED << pipelineVars, detector, moreVars >>

UpdateAllServices ==
    /\ Len(apiManager.calls) < MaxUpdates
    /\ \E newBaseUrl \in Urls, threw \in SUBSET DOMAIN apiManager.services :
          /\ Cardinality(threw) <= 1
          /\ apiManager' = updateAllServices(apiManager, "updateAllServices",
                                             newBaseUrl, threw)
    /\ UNCHANGED << pipelineVars, detector, moreVars >>

\* lines 79-88: the write to storage resolves or rejects
UpdateAllServicesReturn ==
    /\ apiManager.isUpdating
    /\ \E stored \in BOOLEAN :
          LET k == Len(apiManager.calls)
              manager == [apiManager EXCEPT !.isUpdating = FALSE]
          IN  apiManager' = [manager EXCEPT !.calls[k] =
                  Returned(manager, @.method, @.url, stored)]
    /\ UNCHANGED << pipelineVars, detector, moreVars >>

\* refreshAllServices (158-165)
RefreshAllServices ==
    /\ Len(apiManager.calls) < MaxUpdates
    /\ IF apiManager.currentBaseUrl = ""
       THEN apiManager' = [apiManager EXCEPT !.calls =
                Append(@, Returned(apiManager, "refreshAllServices", "", FALSE))]
       ELSE apiManager' = updateAllServices(apiManager, "refreshAllServices",
                                            apiManager.currentBaseUrl, {})
    /\ UNCHANGED << pipelineVars, detector, moreVars >>

NextApi ==
    \/ LoadCurrentUrl
    \/ RegisterService
    \/ UpdateAllServices
    \/ UpdateAllServicesReturn
    \/ RefreshAllServices

(* -------------------------- AutoNetworkDetector ------------------------ *)
Null == "null"
SSIDs == { "A", "B" }
\* the states NetInfo reports: no network, cellular, and WiFi with or
\* without a readable SSID, with or without a reachable internet
NetInfoStates ==
    { [ type |-> "none", ssid |-> Null, isConnected |-> FALSE,
        isInternetReachable |-> FALSE ],
      [ type |-> "cellular", ssid |-> Null, isConnected |-> TRUE,
        isInternetReachable |-> TRUE ] }
    \cup { [ type |-> "wifi", ssid |-> ssid, isConnected |-> TRUE,
             isInternetReachable |-> r ] :
               ssid \in SSIDs \cup { Null }, r \in BOOLEAN }

getSSIDFromState(state) == IF state.type = "wifi" THEN state.ssid ELSE Null

\* the singleton after initialize; (hist) changes are the states handled,
\* with the events emitted for each, scans the scans started, each with
\* the number of the change it started at, active the number of scans that
\* are executing, and scanCalls the calls of scanForBackend with the
\* addresses each probed and what it returned
NewAutoNetworkDetector ==
    [ currentSSID |-> Null, lastKnownIP |-> Null, isScanning |-> FALSE,
      config |-> [ scanOnWifiChange |-> TRUE, scanOnConnectionRestore |-> TRUE ],
      configs |-> 0, wasConnected |-> FALSE, changes |-> << >>, scans |-> << >>,
      active |-> 0, forced |-> 0, scanCalls |-> << >> ]

\* (hist) a call of scanForBackend that starts a scan
Started(d, at) ==
    [d EXCEPT !.isScanning = TRUE, !.scans = Append(@, at), !.active = @ + 1,
              !.scanCalls = Append(@, [ whileScanning |-> d.isScanning,
                                        probes |-> 0, result |-> "pending" ])]

\* a scanForBackend that starts a scan whatever isScanning reads
scanForBackendUnguarded(d, at) == Started(d, at)
\* scanForBackend as far as its first await (165-172)
scanForBackend(d, at) ==
    IF d.isScanning
    THEN [d EXCEPT !.scanCalls = Append(@, [ whileScanning |-> TRUE,
                                             probes |-> 0, result |-> Null ])]
    ELSE Started(d, at)

\* handleNetworkChange (95-150)
handleNetworkChange(d, state) ==
    LET previousSSID == d.currentSSID
        currentSSID == getSSIDFromState(state)
        isConnected == state.isConnected /\ state.isInternetReachable
        isWifi == state.type = "wifi"
        at == Len(d.changes) + 1
        Change(emitted) ==
            [ state |-> state, wasConnected |-> d.wasConnected,
              isConnected |-> isConnected, emitted |-> emitted,
              scanOnWifiChange |-> d.config.scanOnWifiChange ]
        d1 == [d EXCEPT !.currentSSID = currentSSID, !.wasConnected = isConnected]
    IN  IF ~isConnected
        THEN [d1 EXCEPT !.changes = Append(@, Change({ "connection_lost" }))]
        ELSE IF previousSSID = Null
        THEN LET d2 == [d1 EXCEPT !.changes =
                           Append(@, Change({ "connection_restored" }))]
             IN  IF d.config.scanOnConnectionRestore /\ isWifi
                 THEN scanForBackend(d2, at) ELSE d2
        ELSE IF isWifi /\ previousSSID # currentSSID
        THEN LET d2 == [d1 EXCEPT !.changes =
                           Append(@, Change({ "wifi_change" }))]
             IN  IF d.config.scanOnWifiChange
                 THEN scanForBackend(d2, at) ELSE d2
        ELSE [d1 EXCEPT !.changes = Append(@, Change({}))]

\* the NetInfo listener of startMonitoring (86-90)
HandleNetworkChange ==
    /\ Len(detector.changes) < MaxChanges
    /\ \E state \in NetInfoStates :
          detector' = handleNetworkChange(detector, state)
    /\ UNCHANGED << pipelineVars, apiManager, moreVars >>

\* the rest of scanForBackend (174-215): the backend answers at the last
\* known address, or is discovered at an address, or is not found, or a
\* probe throws; the finally block resets isScanning
ScanForBackendReturn ==
    /\ detector.active > 0
    /\ \E outcome \in { "lastKnown", "discovered", "none", "threw" },
          discoveredIP \in { "ip1", "ip2" } :
          LET k == CHOOSE c \in DOMAIN detector.scanCalls :
                       detector.scanCalls[c].result = "pending"
              tried == IF detector.lastKnownIP = Null THEN 0 ELSE 1
          IN  /\ outcome = "lastKnown" =>
                    detector.lastKnownIP # Null /\ discoveredIP = detector.lastKnownIP
              /\ outcome \in { "none", "threw" } => discoveredIP = "ip1"
              /\ detector' = [detector EXCEPT
                    !.isScanning = FALSE,
                    !.active = @ - 1,
                    !.lastKnownIP = IF outcome = "discovered" THEN discoveredIP ELSE @,
                    !.scanCalls[k] =
                        [ @ EXCEPT
                            !.probes = IF outcome = "lastKnown" THEN 1 ELSE tried + 1,
                            !.result = IF outcome \in { "lastKnown", "discovered" }
                                       THEN discoveredIP ELSE Null ]]
    /\ UNCHANGED << pipelineVars, apiManager, moreVars >>

\* forceScan (355-358)
ForceScan ==
    /\ detector.forced < MaxForceScans
    /\ detector' = scanForBackend([detector EXCEPT !.forced = @ + 1],
                                  Len(detector.changes))
    /\ UNCHANGED << pipelineVars, apiManager, moreVars >>

\* saveConfig (274-277)
SaveConfig ==
    /\ detector.configs < MaxConfigs
    /\ \E w \in BOOLEAN, r \in BOOLEAN :
          detector' = [detector EXCEPT
              !.configs = @ + 1,
              !.config = [ scanOnWifiChange |-> w, scanOnConnectionRestore |-> r ]]
    /\ UNCHANGED << pipelineVars, apiManager, moreVars >>

NextNetwork ==
    \/ HandleNetworkChange
    \/ ScanForBackendReturn
    \/ ForceScan
    \/ SaveConfig

\* the detector's monitoring fields after construction: isMonitoring and
\* unsubscribe (0 for null), with the listeners NetInfo holds; (hist)
\* pending counts the initialize calls that wait for storage, created the
\* subscriptions made, lastCall the call that finished last
NewMonitor ==
    [ isMonitoring |-> FALSE, unsubscribe |-> 0, subscriptions |-> {},
      pending |-> 0, created |-> 0, initializes |-> 0, stops |-> 0,
      lastCall |-> "none" ]

\* initialize as far as its first await (58-66): the callers are the root
\* layout's effect and the useAutoNetworkDetection hook
Initialize ==
    /\ monitor.initializes < MaxInitializes
    /\ monitor' = IF monitor.isMonitoring
                  THEN [monitor EXCEPT !.initializes = @ + 1,
                                       !.lastCall = "initialize"]
                  ELSE [monitor EXCEPT !.initializes = @ + 1, !.pending = @ + 1]
    /\ UNCHANGED << pipelineVars, apiManager, detector, clears, hookCalls,
                    authStore >>

\* the rest of initialize (69-80) with startMonitoring (86-90): the read of
\* the last known address resolves, or it throws and nothing is subscribed
InitializeContinue ==
    /\ monitor.pending > 0
    /\ \E read \in BOOLEAN :
          monitor' = IF read
                     THEN [monitor EXCEPT
                              !.pending = @ - 1,
                              !.created = @ + 1,
                              !.subscriptions = @ \cup { monitor.created + 1 },
                              !.unsubscribe = monitor.created + 1,
                              !.isMonitoring = TRUE,
                              !.lastCall = "initialize"]
                     ELSE [monitor EXCEPT !.pending = @ - 1,
                                          !.lastCall = "initialize"]
    /\ UNCHANGED << pipelineVars, apiManager, detector, clears, hookCalls,
                    authStore >>

\* stop (343-350)
Stop ==
    /\ monitor.stops < MaxStops
    /\ monitor' = [monitor EXCEPT
                      !.stops = @ + 1,
                      !.subscriptions = @ \ { monitor.unsubscribe },
                      !.unsubscribe = 0,
                      !.isMonitoring = FALSE,
                      !.lastCall = "stop"]
    /\ UNCHANGED << pipelineVars, apiManager, detector, clears, hookCalls,
                    authStore >>

NextMonitor ==
    \/ Initialize
    \/ InitializeContinue
    \/ Stop

(* ------------------------------ auth store ----------------------------- *)
\* the store's initial state (18-23), null written as Null; (hist) flight
\* are the calls that wait for their await, issued counts the tokens the
\* server has handed out, calls the calls made
NewAuthStore ==
    [ isAuthenticated |-> FALSE, user |-> Null, token |-> Null,
      isLoading |-> FALSE, error |-> Null,
      flight |-> {}, issued |-> 0, calls |-> 0 ]

\* set({ isAuthenticated: false, user: null, token: null, ... })
SignedOut(store, isLoading, error) ==
    [store EXCEPT !.isAuthenticated = FALSE, !.user = Null, !.token = Null,
                  !.isLoading = isLoading, !.error = error]

\* login (26-73) and register (75-122) as far as their await
Login ==
    /\ authStore.calls < MaxAuthCalls
    /\ \E method \in { "login", "register" }, user \in Voters :
          /\ [ method |-> method, user |-> user ] \notin authStore.flight
          /\ authStore' = [authStore EXCEPT
                !.calls = @ + 1, !.isLoading = TRUE, !.error = Null,
                !.flight = @ \cup { [ method |-> method, user |-> user ] }]
    /\ UNCHANGED << pipelineVars, apiManager, detector, clears, hookCalls, monitor >>

\* the rest of login and register: the server accepts, refuses, or the
\* request throws
LoginReturn ==
    /\ \E call \in authStore.flight, success \in BOOLEAN :
          /\ call.method \in { "login", "register" }
          /\ LET store == [authStore EXCEPT !.flight = @ \ { call }]
             IN  authStore' =
                   IF success
                   THEN [store EXCEPT !.isAuthenticated = TRUE,
                                      !.user = call.user,
                                      !.token = ToString(store.issued + 1),
                                      !.issued = @ + 1,
                                      !.isLoading = FALSE, !.error = Null]
                   ELSE SignedOut(store, FALSE, "failed")
    /\ UNCHANGED << pipelineVars, apiManager, detector, clears, hookCalls, monitor >>

\* logout (124-150) as far as its await of the cleanup
Logout ==
    /\ authStore.calls < MaxAuthCalls
    /\ [ method |-> "logout" ] \notin authStore.flight
    /\ authStore' = [authStore EXCEPT !.calls = @ + 1,
                                      !.flight = @ \cup { [ method |-> "logout" ] }]
    /\ UNCHANGED << pipelineVars, apiManager, detector, clears, hookCalls, monitor >>

\* the rest of logout: the store is reset whether the cleanup threw or not
LogoutReturn ==
    /\ [ method |-> "logout" ] \in authStore.flight
    /\ authStore' = SignedOut([authStore EXCEPT
                                  !.flight = @ \ { [ method |-> "logout" ] }],
                              FALSE, Null)
    /\ UNCHANGED << pipelineVars, apiManager, detector, clears, hookCalls, monitor >>

\* refreshToken (152-181) as far as its await: without a token it returns
\* false at once
RefreshToken ==
    /\ authStore.calls < MaxAuthCalls
    /\ [ method |-> "refreshToken" ] \notin authStore.flight
    /\ authStore' = [authStore EXCEPT
          !.calls = @ + 1,
          !.flight = IF authStore.token = Null THEN @
                     ELSE @ \cup { [ method |-> "refreshToken" ] }]
    /\ UNCHANGED << pipelineVars, apiManager, detector, clears, hookCalls, monitor >>

\* lines 159-172: a new token is set, or the user is signed out
AfterRefresh(store, success) ==
    IF success
    THEN [store EXCEPT !.token = ToString(store.issued + 1), !.issued = @ + 1]
    ELSE SignedOut(store, store.isLoading, store.error)

\* the rest of refreshToken
RefreshTokenReturn ==
    /\ [ method |-> "refreshToken" ] \in authStore.flight
    /\ \E success \in BOOLEAN :
          authStore' = AfterRefresh([authStore EXCEPT
                                       !.flight = @ \ { [ method |-> "refreshToken" ] }],
                                   success)
    /\ UNCHANGED << pipelineVars, apiManager, detector, clears, hookCalls, monitor >>

NextAuth ==
    \/ Login
    \/ LoginReturn
    \/ Logout
    \/ LogoutReturn
    \/ RefreshToken
    \/ RefreshTokenReturn

(* ------------------------------ useVoting ------------------------------ *)
MsgNotAuthenticated == "User not authenticated"

\* the hook's VoteResponse for what submitVote resolved to (part_010
\* 183-195, 220-227)
VoteResponse(submissionResult) ==
    IF submissionResult.success
    THEN [ success |-> TRUE, transactionHash |-> submissionResult.transactionHash,
           error |-> Undefined ]
    ELSE [ success |-> FALSE, transactionHash |-> Undefined,
           error |-> submissionResult.error ]

\* castVote of the hook as far as its await of submitVote (part_010 141-181):
\* without a token and a user in the auth store it returns at once
UseVotingCastVote ==
    /\ Len(hookCalls) < MaxHookCalls
    /\ \E authenticated \in BOOLEAN, v \in Voters, hasAddress \in BOOLEAN :
          IF authenticated
          THEN /\ CanStart
               /\ Begin(HookRequest(v, now, hasAddress), 1, Len(tasks) + 1, timers)
               /\ hookCalls' = Append(hookCalls,
                      [ authenticated |-> TRUE, task |-> Len(tasks) + 1,
                        response |-> Undefined ])
          ELSE /\ hookCalls' = Append(hookCalls,
                      [ authenticated |-> FALSE, task |-> 0,
                        response |-> Some([ success |-> FALSE,
                                            transactionHash |-> Undefined,
                                            error |-> Some(MsgNotAuthenticated) ]) ])
               /\ UNCHANGED << serviceVars, tasks >>
    /\ UNCHANGED << wallet, ledgerVars, now, ticks, bound, backendCalls,
                    verifications, apiManager, detector, clears, monitor, authStore,
                    faults, cancels >>

\* the rest of castVote (part_010 183-243), when submitVote has resolved
UseVotingReturn ==
    /\ \E k \in DOMAIN hookCalls :
          /\ hookCalls[k].response = Undefined
          /\ tasks[hookCalls[k].task].pc = "done"
          /\ hookCalls' = [hookCalls EXCEPT ![k].response =
                 Some(VoteResponse(tasks[hookCalls[k].task].resp))]
    /\ UNCHANGED << serviceVars, tasks, wallet, ledgerVars, now, ticks, bound,
                    backendCalls, verifications, apiManager, detector, clears,
                    monitor, authStore, faults, cancels >>

\* the default of clearOldSubmissions' parameter, and the ages callers pass
defaultMaxAge == 24 * 60 * 60 * 1000
MaxAges == { 0, defaultMaxAge }

\* every record
toDeleteAll(cache, time, age) == DOMAIN cache
\* lines 459-463: the ids of the records submitted more than `age` ago
toDelete(cache, time, age) ==
    { voteId \in DOMAIN cache : time - cache[voteId].submittedAt > age }

\* lines 465-469
MapRemove(map, voteIds) == [ x \in (DOMAIN map) \ voteIds |-> map[x] ]

\* clearOldSubmissions(maxAge) (455-470), called by a maintenance job
ClearOldSubmissions ==
    /\ Len(clears) < MaxClears
    /\ \E age \in MaxAges :
          LET old == toDelete(statusCache, now, age)
          IN  /\ statusCache' = MapRemove(statusCache, old)
              /\ submissionQueue' = MapRemove(submissionQueue, old)
              /\ retryAttempts' = MapRemove(retryAttempts, old)
              /\ clears' = Append(clears,
                     [ maxAge |-> age, removed |-> old,
                       kept |-> (DOMAIN statusCache) \ old ])
    /\ UNCHANGED << timers, tasks, wallet, ledgerVars, now, ticks, faults, cancels,
                    bound, backendCalls, verifications, apiManager, detector,
                    hookCalls, monitor, authStore >>

\* time passes
Tick ==
    /\ Disturbances < MaxDisturbances
    /\ ticks' = ticks + 1
    /\ now' = now + TickMs
    /\ UNCHANGED << serviceVars, tasks, wallet, ledgerVars, faults, cancels, bound,
                    backendCalls, verifications, apiManager, detector, moreVars >>

InitState ==
    /\ now = 0
    /\ ticks = 0
    /\ submissionQueue = << >>
    /\ statusCache = << >>
    /\ retryAttempts = << >>
    /\ timers = {}
    /\ tasks = << >>
    /\ wallet = NoWallet
    /\ voters = {}
    /\ voted = {}
    /\ height = 0
    /\ faults = 0
    /\ cancels = 0
    /\ backendCalls = << >>
    /\ verifications = << >>
    /\ apiManager = NewDynamicApiManager
    /\ detector = NewAutoNetworkDetector
    /\ clears = << >>
    /\ hookCalls = << >>
    /\ monitor = NewMonitor
    /\ authStore = NewAuthStore

Init ==
    /\ InitState
    /\ bound = [ submits |-> MaxSubmits, calls |-> MaxCalls ]

InitRace ==
    /\ InitState
    /\ bound = [ submits |-> RaceSubmits, calls |-> RaceCalls ]

InitClear ==
    /\ InitState
    /\ bound = [ submits |-> ClearSubmits, calls |-> ClearCalls ]

Next ==
    \/ SubmitVote
    \/ RetrySubmission
    \/ CancelSubmission
    \/ Tick
    \/ \E t \in DOMAIN tasks : ValidateSubmission(t)
    \/ \E t \in DOMAIN tasks : ConnectWallet(t)
    \/ \E t \in DOMAIN tasks : CheckHasVoted(t)
    \/ \E t \in DOMAIN tasks : CheckRegistered(t)
    \/ \E t \in DOMAIN tasks : RegisterVoter(t)
    \/ \E t \in DOMAIN tasks : CastVote(t)
    \/ \E t \in DOMAIN tasks : SubmitToBackend(t)

\* submitToBackend called on its own, with a request and a transaction hash
\* of the caller's choice; its timer of one second has run when it reads the
\* clock, unless the call was made together with the one before
BackendCall ==
    /\ Len(backendCalls) < MaxConfirms
    /\ \E request \in FreshRequests(0), transactionHash \in 1 .. 2,
          isSuccess \in BOOLEAN, elapsed \in { 0, 1000 } :
          /\ now' = now + elapsed
          /\ backendCalls' = Append(backendCalls,
                 [ request |-> request, transactionHash |-> transactionHash,
                   result |-> submitToBackend(request, transactionHash,
                                              now + elapsed, isSuccess) ])
    /\ UNCHANGED << serviceVars, tasks, wallet, ledgerVars, ticks, faults,
                    cancels, bound, verifications, apiManager, detector, moreVars >>

NextBackend == BackendCall

InitHook ==
    /\ InitState
    /\ bound = [ submits |-> HookSubmits, calls |-> HookCalls ]

NextHook ==
    \/ Next
    \/ UseVotingCastVote
    \/ UseVotingReturn

NextClear ==
    \/ Next
    \/ ClearOldSubmissions

\* a step of an attempt that is waiting on a collaborator
Settle ==
    \E t \in DOMAIN tasks :
        \/ ValidateSubmission(t) \/ ConnectWallet(t) \/ CheckHasVoted(t)
        \/ CheckRegistered(t) \/ RegisterVoter(t) \/ CastVote(t)
        \/ SubmitToBackend(t)

Spec == Init /\ [][Next]_vars
SpecRace == InitRace /\ [][Next]_vars
\* every awaited timer, fetch, query and transaction settles in the end
SpecLive == Init /\ [][Next]_vars /\ WF_vars(Settle)
\* submitToBackend on its own
SpecBackend == Init /\ [][NextBackend]_vars

\* the service with a caller of clearOldSubmissions
SpecClear == InitClear /\ [][NextClear]_vars
\* the service with the useVoting hook among its callers
SpecHook == InitHook /\ [][NextHook]_vars
\* the detector's initialize and stop
SpecMonitor == Init /\ [][NextMonitor]_vars
\* the auth store
SpecAuth == Init /\ [][NextAuth]_vars
\* the DynamicApiManager on its own
SpecApi == Init /\ [][NextApi]_vars
\* the AutoNetworkDetector on its own
SpecNetwork == Init /\ [][NextNetwork]_vars

(* ------------------------- RealBiometricService ------------------------ *)
MsgNotEnrolled == "Biometric not enrolled. Please enroll first."
MsgNotAvailable == "Device biometric not available"
MsgAvailabilityCheck == "Failed to check biometric availability"
MsgVerificationData == "Failed to generate verification data"
MsgPromptThrew == "Biometric verification failed"

\* getErrorMessage (604-621) for the error codes of a prompt that did not
\* succeed
getErrorMessage(error) ==
    CASE error = "user_cancel" -> "Authentication was cancelled"
      [] error = "system_cancel" -> "Authentication was cancelled by system"
      [] error = "" -> "Authentication failed"
      [] OTHER -> error

\* an invocation of verifyBiometricForVoting: its position, what its queries
\* answered ("none" while not asked), and (hist) the prompts it has made
NewVerification(electionId) ==
    [ pc |-> "isEnrolled", electionId |-> electionId,
      enrollmentStatus |-> "none", hasHardware |-> "none", isEnrolled |-> "none",
      prompts |-> 0, prompt |-> "none",
      result |-> [ success |-> FALSE, hash |-> Undefined, error |-> Undefined ] ]

\* the catch block of verifyBiometricForVoting (283-289), and line 266
VerificationFailure(v, message) ==
    [v EXCEPT !.pc = "done",
              !.result = [ success |-> FALSE, hash |-> Undefined,
                           error |-> Some(message) ]]

\* a condition that lets every device through
AvailableAlways(hasHardware, isEnrolled) == TRUE
\* line 250: the device has the sensor and a finger or face enrolled
Available(hasHardware, isEnrolled) == hasHardware /\ isEnrolled

\* the result of the prompt ignored
AfterAuthenticateIgnored(success) == "generate"
\* line 264: a prompt that did not succeed ends the call
AfterAuthenticate(success) == IF success THEN "generate" ELSE "return"

\* generateDeviceVerificationToken (348-375): a hash of the user, the
\* election, the device and the time
generateDeviceVerificationToken(userId, electionId, timestamp) ==
    << "vote_device", userId,
       IF electionId = Undefined THEN "unknown" ELSE electionId[1], timestamp >>

\* a call of verifyBiometricForVoting(electionId?)
VerifyBiometricForVoting ==
    /\ Len(verifications) < MaxVerifications
    /\ \E electionId \in { Undefined, Some("e1") } :
          verifications' = Append(verifications, NewVerification(electionId))
    /\ UNCHANGED << serviceVars, tasks, wallet, ledgerVars, now, ticks, faults,
                    cancels, bound, backendCalls, apiManager, detector, moreVars >>

\* lines 243-246 with isBiometricEnrolled (409-417): the stored enrollment
\* status is read; a read that fails counts as not enrolled
IsBiometricEnrolled(k) ==
    /\ verifications[k].pc = "isEnrolled"
    /\ \E enrollmentStatus \in { "completed", "absent", "error" } :
          LET v == [verifications[k] EXCEPT !.enrollmentStatus = enrollmentStatus]
          IN  verifications' = [verifications EXCEPT ![k] =
                  IF enrollmentStatus = "completed"
                  THEN [v EXCEPT !.pc = "availability"]
                  ELSE VerificationFailure(v, MsgNotEnrolled)]
    /\ UNCHANGED << serviceVars, tasks, wallet, ledgerVars, now, ticks, faults,
                    cancels, bound, backendCalls, apiManager, detector, moreVars >>

\* lines 249-252 with checkBiometricAvailability (27-52), which throws when
\* a query of the sensor throws
CheckBiometricAvailability(k) ==
    /\ verifications[k].pc = "availability"
    /\ \E hasHardware \in BOOLEAN, isEnrolled \in BOOLEAN, threw \in BOOLEAN :
          LET v == [verifications[k] EXCEPT
                       !.hasHardware = IF threw THEN "error"
                                       ELSE IF hasHardware THEN "yes" ELSE "no",
                       !.isEnrolled = IF threw THEN "error"
                                      ELSE IF isEnrolled THEN "yes" ELSE "no"]
          IN  /\ threw => (hasHardware /\ isEnrolled)
              /\ verifications' = [verifications EXCEPT ![k] =
                    IF threw
                    THEN VerificationFailure(v, MsgAvailabilityCheck)
                    ELSE IF ~Available(hasHardware, isEnrolled)
                    THEN VerificationFailure(v, MsgNotAvailable)
                    ELSE [v EXCEPT !.pc = "authenticate"]]
    /\ UNCHANGED << serviceVars, tasks, wallet, ledgerVars, now, ticks, faults,
                    cancels, bound, backendCalls, apiManager, detector, moreVars >>

\* lines 254-270: the prompt of LocalAuthentication.authenticateAsync
Authenticate(k) ==
    /\ verifications[k].pc = "authenticate"
    /\ \E outcome \in { "success", "user_cancel", "system_cancel", "", "threw" } :
          LET v == [verifications[k] EXCEPT !.prompts = @ + 1, !.prompt = outcome]
          IN  verifications' = [verifications EXCEPT ![k] =
                  IF outcome = "threw"
                  THEN VerificationFailure(v, MsgPromptThrew)
                  ELSE IF AfterAuthenticate(outcome = "success") = "return"
                  THEN VerificationFailure(v, getErrorMessage(outcome))
                  ELSE [v EXCEPT !.pc = "generate"]]
    /\ UNCHANGED << serviceVars, tasks, wallet, ledgerVars, now, ticks, faults,
                    cancels, bound, backendCalls, apiManager, detector, moreVars >>

\* lines 272-281 with generateVotingVerificationData (295-343): the user of
\* the auth store, if any, and Date.now() go into the hash
GenerateVotingVerificationData(k) ==
    /\ verifications[k].pc = "generate"
    /\ \E userId \in { Undefined, Some("v1") } :
          LET v == verifications[k]
          IN  verifications' = [verifications EXCEPT ![k] =
                  IF userId = Undefined
                  THEN VerificationFailure(v, MsgVerificationData)
                  ELSE [v EXCEPT !.pc = "done",
                          !.result = [ success |-> TRUE,
                                       hash |-> Some(generateDeviceVerificationToken(
                                                    userId[1], v.electionId, now)),
                                       error |-> Undefined ]]]
    /\ UNCHANGED << serviceVars, tasks, wallet, ledgerVars, now, ticks, faults,
                    cancels, bound, backendCalls, apiManager, detector, moreVars >>

NextBiometric ==
    \/ VerifyBiometricForVoting
    \/ \E k \in DOMAIN verifications : IsBiometricEnrolled(k)
    \/ \E k \in DOMAIN verifications : CheckBiometricAvailability(k)
    \/ \E k \in DOMAIN verifications : Authenticate(k)
    \/ \E k \in DOMAIN verifications : GenerateVotingVerificationData(k)

\* verifyBiometricForVoting on its own
SpecBiometric == Init /\ [][NextBiometric]_vars

(* ============================ properties =============================== *)
Done(i) == tasks[i].pc = "done"
KeyOf(i) == << tasks[i].req.electionId, tasks[i].req.voterId >>
Keys == { << "e1", v >> : v \in Voters }

\* attempt i called the collaborator, with this outcome
Has(i, call, outcome) ==
    \E k \in DOMAIN tasks[i].log : tasks[i].log[k] = << call, outcome >>
Called(i, call) ==
    \E k \in DOMAIN tasks[i].log : tasks[i].log[k][1] = call
\* the status of the attempt's record when submitVote returned
EndStatus(i) ==
    IF tasks[i].endRecord = Undefined THEN "none" ELSE tasks[i].endRecord[1].status
\* attempt i is between the update to processing and its return
Processing(i) ==
    tasks[i].pc \in { "connect", "hasVoted", "isRegistered", "register",
                      "castVote", "backend" }

\* the records of statusCache that read confirmed and were confirmed by an
\* attempt for the key
ConfirmedRecords(key) ==
    { tasks[i].id : i \in { j \in DOMAIN tasks :
        /\ KeyOf(j) = key
        /\ EndStatus(j) = "confirmed"
        /\ tasks[j].id \in DOMAIN statusCache
        /\ statusCache[tasks[j].id].status = "confirmed" } }

\* C1: for every (electionId, voterId) pair at most one record with status
\* confirmed exists, whatever calls, retries and cancels have happened
C1_AtMostOneConfirmed ==
    \A key \in Keys : Cardinality(ConfirmedRecords(key)) <= 1

\* C2: a request handed to submitVote is re-attempted automatically at most
\* maxRetries times, whatever fails (attempt 1 is the caller's own call)
C2_RetryBound ==
    \A i \in DOMAIN tasks : tasks[i].attempt - 1 <= maxRetries

\* C3: every castVote call of an attempt comes after a registration query of
\* the same attempt that answered registered, or after a registerVoter of the
\* same attempt that succeeded, and never after a registerVoter that failed
C3_RegisteredBeforeVote ==
    \A i \in DOMAIN tasks : \A k \in DOMAIN tasks[i].log :
        tasks[i].log[k][1] = "castVote" =>
            /\ \E j \in 1 .. (k - 1) :
                  tasks[i].log[j] \in { << "isVoterRegistered", "true" >>,
                                        << "registerVoter", "ok" >> }
            /\ \A j \in 1 .. (k - 1) :
                  tasks[i].log[j] # << "registerVoter", "failed" >>
\* castVote was called after a successful registration in one attempt and
\* after a query that answered registered in another
C3_Witness ==
    /\ \E i \in DOMAIN tasks :
          Has(i, "registerVoter", "ok") /\ Called(i, "castVote")
    /\ \E i \in DOMAIN tasks :
          Has(i, "isVoterRegistered", "true") /\ Called(i, "castVote")

\* C4: an attempt that fails validation, or that the ledger's duplicate check
\* ends with already voted, sets no retry timer
FatalMsgs == ValidationMsgs \cup { MsgVotedChain }
C4_FatalNotRetried ==
    \A i \in DOMAIN tasks :
        (Done(i) /\ tasks[i].resp.error \in { Some(m) : m \in FatalMsgs })
            => tasks[i].scheduled = Undefined

\* C5: two attempts for the same (electionId, voterId) are never in
\* processing at the same time
C5_OneInProcessing ==
    \A i, j \in DOMAIN tasks :
        (i # j /\ KeyOf(i) = KeyOf(j)) => ~(Processing(i) /\ Processing(j))

\* C6: a request whose verification claim was captured more than maxAge
\* before the attempt never passes validation
ClaimExpired(i) == tasks[i].startedAt - tasks[i].req.capturedAt > maxAge
C6_ExpiredClaimRejected ==
    \A i \in DOMAIN tasks :
        ClaimExpired(i) => ~Has(i, "validateSubmission", "valid")

\* C7: an attempt whose duplicate-vote query answered that the identity has
\* voted returns failed with the already-voted error, and has sent no ledger
\* transaction
C7_AlreadyVotedNoTransaction ==
    \A i \in DOMAIN tasks :
        Has(i, "hasVoterVoted", "true") =>
            /\ Done(i)
            /\ EndStatus(i) = "failed"
            /\ ~tasks[i].resp.success
            /\ tasks[i].resp.error = Some(MsgVotedChain)
            /\ tasks[i].txs = 0
            /\ ~Called(i, "registerVoter") /\ ~Called(i, "castVote")
\* the duplicate-vote check of submitToBlockchain answered voted
C7_Witness ==
    \E i \in DOMAIN tasks :
        /\ Has(i, "connectWallet", "ok")
        /\ Has(i, "hasVoterVoted", "true")
        /\ Done(i)

\* the calls of attempt i that failed or could not be answered, the backend
\* confirmation apart
OnlyBackendFailed(i) ==
    \A k \in DOMAIN tasks[i].log :
        tasks[i].log[k][2] \in { "failed", "error" }
            => tasks[i].log[k][1] = "submitToBackend"
\* the attempts made for the caller's call root, up to the n-th
Attempts(root, n) ==
    { i \in DOMAIN tasks : tasks[i].root = root /\ tasks[i].attempt <= n }

\* C8: when the first attempt commits the vote on the ledger and then fails
\* at the backend confirmation, and nothing but the backend fails, the third
\* attempt ends confirmed
C8_ScenarioC ==
    \A i \in DOMAIN tasks :
        ( /\ Done(i)
          /\ tasks[i].attempt = 3
          /\ \A j \in Attempts(tasks[i].root, 3) : OnlyBackendFailed(j)
          /\ \E j \in Attempts(tasks[i].root, 1) :
                Has(j, "castVote", "ok") /\ Has(j, "submitToBackend", "failed") )
        => EndStatus(i) = "confirmed"

\* C9: an attempt that committed the vote on the ledger and failed at the
\* backend confirmation returns failed, and its response or its record
\* carries the hash of the ledger transaction
C9_ScenarioD ==
    \A i \in DOMAIN tasks :
        (Done(i) /\ Has(i, "castVote", "ok") /\ Has(i, "submitToBackend", "failed"))
        => /\ EndStatus(i) = "failed"
           /\ \/ tasks[i].resp.transactionHash = tasks[i].transactionHash
              \/ tasks[i].endRecord[1].transactionHash = tasks[i].transactionHash

\* a request with every field present and well-formed, made at time t
WellFormed(request, t) ==
    /\ request.electionId # "" /\ request.voterId # ""
    /\ ParseInt(request.candidateId) # Undefined
    /\ Len(request.verificationCode) = 6
    /\ request.biometricHash # "" /\ request.deviceId # ""
    /\ t - request.timestamp <= maxAge
    /\ t - request.capturedAt <= maxAge
\* no call of attempt i failed, and no query answered voted or registered
Healthy(i) ==
    \A k \in DOMAIN tasks[i].log :
        tasks[i].log[k][2] \notin { "failed", "error", "true" }

\* C10: an attempt with a fresh, well-formed request, for an identity the
\* ledger knows neither as registered nor as having voted, all of whose
\* ledger and backend calls succeed, returns success with a transaction
\* hash, a block number and a confirmation id, and its record reads
\* confirmed; and every attempt returns
C10_Returned(i) ==
    (Done(i) /\ WellFormed(tasks[i].req, tasks[i].startedAt) /\ Healthy(i))
    => /\ tasks[i].resp.success
       /\ tasks[i].resp.transactionHash # Undefined
       /\ tasks[i].resp.blockNumber # Undefined
       /\ tasks[i].resp.confirmationId # Undefined
       /\ EndStatus(i) = "confirmed"
       /\ tasks[i].endRecord[1].transactionHash = tasks[i].resp.transactionHash
C10_ScenarioA ==
    /\ [](\A i \in DOMAIN tasks : C10_Returned(i))
    /\ \A i \in 1 .. MaxCalls : (i \in DOMAIN tasks) ~> (i \in DOMAIN tasks /\ Done(i))
\* a healthy attempt for an unregistered identity has returned success
C10_Witness ==
    \E i \in DOMAIN tasks :
        /\ Done(i) /\ WellFormed(tasks[i].req, tasks[i].startedAt) /\ Healthy(i)
        /\ Has(i, "hasVoterVoted", "false") /\ Has(i, "isVoterRegistered", "false")
        /\ Has(i, "registerVoter", "ok") /\ Has(i, "castVote", "ok")
        /\ tasks[i].resp.success

\* C11: two successful calls of submitToBackend for the same electionId,
\* voterId and transaction hash return the same confirmationId
C11_IdempotentConfirmation ==
    \A i, j \in DOMAIN backendCalls :
        ( /\ backendCalls[i].request.electionId = backendCalls[j].request.electionId
          /\ backendCalls[i].request.voterId = backendCalls[j].request.voterId
          /\ backendCalls[i].transactionHash = backendCalls[j].transactionHash
          /\ backendCalls[i].result.success /\ backendCalls[j].result.success )
        => backendCalls[i].result.confirmationId = backendCalls[j].result.confirmationId

\* C12: a call of cancelSubmission leaves alone every submission whose
\* attempt is in flight (status processing): its record and its place in the
\* queue are as before
C12_CancelOnlyWhenQueued ==
    [][ cancels' # cancels =>
            \A voteId \in DOMAIN statusCache :
                statusCache[voteId].status = "processing" =>
                    /\ statusCache'[voteId] = statusCache[voteId]
                    /\ (voteId \in DOMAIN submissionQueue')
                           = (voteId \in DOMAIN submissionQueue) ]_vars

\* the record of voteId reads rejected and no attempt under that id is running:
\* the submission was cancelled while it waited for its retry timer
CancelledWhileQueued(voteId) ==
    /\ voteId \in DOMAIN statusCache
    /\ statusCache[voteId].status = "rejected"
    /\ \A i \in DOMAIN tasks : tasks[i].id = voteId => Done(i)
\* the step is a call of submitVote that draws voteId again
DrawnAgain(voteId) ==
    /\ Len(tasks') > Len(tasks)
    /\ tasks'[Len(tasks')].id = voteId

\* C13: once a submission has been cancelled while it waited for its retry
\* timer, the firing of the timer starts no attempt, and the record goes on
\* reading rejected (as long as no later call of submitVote draws the same id)
C13_CancelStopsRetry ==
    [][ \A tm \in timers :
            CancelledWhileQueued(tm.id) =>
                /\ tm \notin timers' => tasks' = tasks
                /\ ~DrawnAgain(tm.id) =>
                      /\ tm.id \in DOMAIN statusCache'
                      /\ statusCache'[tm.id].status = "rejected" ]_vars
\* a failed attempt set a retry timer, was cancelled, the timer has fired, and
\* no further attempt was made for the request
C13_Witness ==
    \E i \in DOMAIN tasks :
        /\ Done(i) /\ tasks[i].scheduled # Undefined
        /\ CancelledWhileQueued(tasks[i].id)
        /\ \A tm \in timers : tm.by # i
        /\ \A j \in DOMAIN tasks :
              tasks[j].root = tasks[i].root => tasks[j].attempt <= tasks[i].attempt

TerminalStatuses == { "confirmed", "failed", "rejected" }
\* one invocation of submitVote at most has drawn voteId
Unshared(voteId) ==
    Cardinality({ i \in DOMAIN tasks : tasks[i].id = voteId }) <= 1

\* C14: a record whose status is confirmed, failed or rejected keeps that
\* status in every later step (a later submitVote that draws the same id and
\* starts the record anew apart)
C14_TerminalAbsorbing ==
    [][ \A voteId \in DOMAIN statusCache :
            ( /\ statusCache[voteId].status \in TerminalStatuses
              /\ Unshared(voteId) /\ ~DrawnAgain(voteId) )
            => /\ voteId \in DOMAIN statusCache'
               /\ statusCache'[voteId].status = statusCache[voteId].status ]_vars

\* no attempt is running and no retry timer is pending: without a new call
\* nothing will happen any more
Quiescent ==
    /\ timers = {}
    /\ \A i \in DOMAIN tasks : Done(i)

\* C15: every record leaves the submission queue in the end: when all
\* attempts have returned and all timers have fired, the queue is empty
\* (what is queued then stays queued for ever)
C15_QueueDrains ==
    Quiescent => DOMAIN submissionQueue = {}

\* C16: an attempt made when its (electionId, voterId) pair already had a
\* confirmed record does not pass validation, and returns an already-voted
\* error
C16_SecondSubmitRejected ==
    \A i \in DOMAIN tasks :
        tasks[i].hadConfirmed =>
            /\ ~Has(i, "validateSubmission", "valid")
            /\ Done(i) => tasks[i].resp.error \in { Some(MsgVotedDb), Some(MsgVotedChain) }

\* C17: a call of submitVote and all its automatic retries use one record:
\* every attempt made for the same caller's call has the same id
C17_OneRecordPerRequest ==
    \A i, j \in DOMAIN tasks :
        tasks[i].root = tasks[j].root => tasks[i].id = tasks[j].id

\* the record has the field and a value in it
Recorded(record, field) ==
    field \in DOMAIN record /\ record[field] # Undefined

\* C18: a record that reads confirmed holds the transaction hash, the block
\* number, the confirmation id and the time of confirmation
C18_ConfirmedRecordComplete ==
    \A voteId \in DOMAIN statusCache :
        statusCache[voteId].status = "confirmed" =>
            /\ Recorded(statusCache[voteId], "transactionHash")
            /\ Recorded(statusCache[voteId], "blockNumber")
            /\ Recorded(statusCache[voteId], "confirmedAt")
            /\ Recorded(statusCache[voteId], "confirmationId")

\* C19: an attempt that failed on a retryable error (a collaborator that
\* failed) and set a retry timer leaves its record reading pending, not failed
C19_PendingWhileRetrying ==
    \A i \in DOMAIN tasks :
        ( /\ Done(i) /\ tasks[i].scheduled # Undefined
          /\ tasks[i].resp.error \notin { Some(msg) : msg \in FatalMsgs } )
        => EndStatus(i) = "pending"

\* C20: a vote transaction is signed by the wallet of the voter of the
\* attempt that sent it, whatever other attempts are running
C20_OwnSigner ==
    \A i \in DOMAIN tasks :
        tasks[i].signer # NoWallet => tasks[i].signer = WalletOf(tasks[i].req.voterId)

\* the request's timestamp was more than maxAge old when attempt i began
TimestampExpired(i) == tasks[i].startedAt - tasks[i].req.timestamp > maxAge
\* every field validateSubmission looks at is present and well-formed
FieldsValid(request) ==
    /\ request.electionId # "" /\ request.candidateId # "" /\ request.voterId # ""
    /\ Len(request.verificationCode) = 6
    /\ request.biometricHash # "" /\ request.deviceId # ""

\* C21: an attempt, first or retry, that validates a request whose timestamp
\* is more than maxAge old returns a validation failure (expired, when the
\* fields are in order) and has called neither the ledger nor the backend
C21_ExpiredTimestampRejected ==
    \A i \in DOMAIN tasks :
        TimestampExpired(i) =>
            /\ Done(i)
            /\ ~tasks[i].resp.success
            /\ tasks[i].resp.error \in { Some(msg) : msg \in ValidationMsgs }
            /\ FieldsValid(tasks[i].req) => tasks[i].resp.error = Some(MsgExpired)
            /\ tasks[i].log = << << "validateSubmission", "invalid" >> >>
            /\ tasks[i].txs = 0
\* a retry found the request expired, after the clock had advanced
C21_Witness ==
    \E i \in DOMAIN tasks :
        /\ tasks[i].attempt > 1
        /\ TimestampExpired(i)
        /\ Done(i) /\ tasks[i].resp.error = Some(MsgExpired)
        /\ \E j \in Attempts(tasks[i].root, 1) : ~TimestampExpired(j)

\* C22: a call of verifyBiometricForVoting that finds the enrollment missing,
\* the sensor absent or nothing enrolled on the device has returned a failure
\* and has never prompted
C22_FailFast ==
    \A k \in DOMAIN verifications :
        ( \/ verifications[k].enrollmentStatus \in { "absent", "error" }
          \/ verifications[k].hasHardware = "no"
          \/ verifications[k].isEnrolled = "no" )
        => /\ verifications[k].pc = "done"
           /\ ~verifications[k].result.success
           /\ verifications[k].result.error # Undefined
           /\ verifications[k].prompts = 0
\* one call found the sensor absent, another found nothing enrolled
C22_Witness ==
    /\ \E k \in DOMAIN verifications :
          verifications[k].hasHardware = "no" /\ verifications[k].pc = "done"
    /\ \E k \in DOMAIN verifications :
          /\ verifications[k].hasHardware = "yes"
          /\ verifications[k].isEnrolled = "no" /\ verifications[k].pc = "done"

\* C23: a call of verifyBiometricForVoting prompts at most once; it returns
\* success, with a hash, only after a prompt that succeeded; a prompt that
\* failed, was cancelled or threw makes it return a failure
C23_PromptOnce ==
    \A k \in DOMAIN verifications :
        /\ verifications[k].prompts <= 1
        /\ verifications[k].result.success =>
              /\ verifications[k].prompt = "success"
              /\ verifications[k].result.hash # Undefined
        /\ verifications[k].prompt \notin { "none", "success" } =>
              /\ verifications[k].pc = "done"
              /\ ~verifications[k].result.success
              /\ verifications[k].result.error # Undefined
\* one call was cancelled at the prompt and returned, another succeeded
C23_Witness ==
    /\ \E k \in DOMAIN verifications :
          verifications[k].prompt = "user_cancel" /\ verifications[k].pc = "done"
    /\ \E k \in DOMAIN verifications :
          verifications[k].prompt = "success" /\ verifications[k].result.success

\* C24: no two attempts for unrelated votes (another election or another
\* voter) that carry the same biometric hash both pass validation
C24_ClaimSingleUse ==
    \A i, j \in DOMAIN tasks :
        ( /\ KeyOf(i) # KeyOf(j)
          /\ tasks[i].req.biometricHash = tasks[j].req.biometricHash
          /\ tasks[i].req.biometricHash # "" )
        => ~( /\ Has(i, "validateSubmission", "valid")
              /\ Has(j, "validateSubmission", "valid") )

\* the attempt's call of the agent has resolved to a failure with a message
ResolvedToFailure(result) ==
    /\ result # Undefined
    /\ ~result[1].success
    /\ result[1].error # Undefined

\* C25: an attempt in which a backend fetch, the wallet connection, the
\* registration or the vote transaction failed has submitToBlockchain resolve
\* to success = false with an error message, and one in which the backend
\* confirmation failed has submitToBackend resolve to the same; the attempt
\* itself returns that message
C25_AgentsNeverRaise ==
    \A i \in DOMAIN tasks :
        /\ ( \/ Has(i, "fetch", "failed")
             \/ Has(i, "connectWallet", "failed")
             \/ Has(i, "registerVoter", "failed")
             \/ Has(i, "castVote", "failed") )
           => /\ ResolvedToFailure(tasks[i].blockchainResult)
              /\ Done(i) /\ ~tasks[i].resp.success
              /\ tasks[i].resp.error = tasks[i].blockchainResult[1].error
        /\ Has(i, "submitToBackend", "failed")
           => /\ ResolvedToFailure(tasks[i].backendResult)
              /\ Done(i) /\ ~tasks[i].resp.success
              /\ tasks[i].resp.error = tasks[i].backendResult[1].error
\* connectWallet threw inside submitToBlockchain
C25_Witness ==
    \E i \in DOMAIN tasks :
        /\ Has(i, "connectWallet", "failed")
        /\ tasks[i].blockchainResult = Some(submitToBlockchainCaught(MsgWallet))

\* C26: a call of updateAllServices(url), made directly or by
\* refreshAllServices, that has returned true left every registered service
\* with url as its base URL and currentBaseUrl equal to url
C26_AllServicesUpdated ==
    \A k \in DOMAIN apiManager.calls :
        LET call == apiManager.calls[k]
        IN  (call.returned /\ call.result)
            => /\ call.currentBaseUrl = call.url
               /\ \A n \in DOMAIN call.services : call.services[n] = call.url

\* C27: from the second network state on, connection_restored is emitted
\* exactly for the states that are connected while the state before was not
C27_RestoredOnReconnect ==
    \A k \in DOMAIN detector.changes :
        k > 1 =>
            ( "connection_restored" \in detector.changes[k].emitted
              <=> ( /\ ~detector.changes[k].wasConnected
                    /\ detector.changes[k].isConnected ) )

\* C28: when no scan is running, every WiFi change detected with
\* scanOnWifiChange enabled has a scan that started at it or after it
C28_ScanAfterWifiChange ==
    ~detector.isScanning =>
        \A k \in DOMAIN detector.changes :
            ( /\ "wifi_change" \in detector.changes[k].emitted
              /\ detector.changes[k].scanOnWifiChange )
            => \E s \in DOMAIN detector.scans : detector.scans[s] >= k

\* C29: an attempt whose duplicate-vote query or registration query failed
\* sends neither a registerVoter nor a vote transaction
C29_FailedQueryFailsAttempt ==
    \A i \in DOMAIN tasks :
        (Has(i, "hasVoterVoted", "error") \/ Has(i, "isVoterRegistered", "error"))
        => /\ ~Called(i, "registerVoter")
           /\ ~Called(i, "castVote")
           /\ tasks[i].txs = 0

\* the ledger answered attempt i that its address is registered, the address
\* has no vote on the ledger, and the service has worked for this voter
\* only, in attempts that have all returned
RegisteredNotVoted(i) ==
    /\ Has(i, "hasVoterVoted", "true") \/ Has(i, "isVoterRegistered", "true")
    /\ tasks[i].address # NoWallet /\ tasks[i].address \notin voted
    /\ \A j \in DOMAIN tasks :
          tasks[j].req.voterId = tasks[i].req.voterId /\ Done(j)

\* C30: an attempt that has returned, for an address that is registered and
\* has not voted, sent no registration and called castVote; and no attempt
\* sends a registration after the ledger answered that it is registered
C30_RegisteredVoterVotes ==
    \A i \in DOMAIN tasks :
        /\ (Done(i) /\ RegisteredNotVoted(i))
           => ~Called(i, "registerVoter") /\ Called(i, "castVote")
        /\ Called(i, "registerVoter") => ~Has(i, "isVoterRegistered", "true")

\* C31: the attempt that fails as the k-th of its request (the caller's call
\* is the first) and sets a retry timer sets it with delay retryDelay * k, as
\* long as its id was drawn once only (the failures the spec calls fatal
\* apart)
C31_DelayGrows ==
    \A i \in DOMAIN tasks :
        ( /\ Done(i) /\ tasks[i].scheduled # Undefined /\ Unshared(tasks[i].id)
          /\ tasks[i].resp.error \notin { Some(msg) : msg \in FatalMsgs } )
        => tasks[i].scheduled = Some(retryDelay * tasks[i].attempt)

\* the calls submitToBlockchain makes once its wallet is connected, and the
\* two that come before
CommitCalls == { "fetch", "connectWallet", "isVoterRegistered", "registerVoter",
                 "castVote" }

\* C32: in every attempt a call of the ledger commit comes after that
\* attempt's validation passed, the call of the backend confirmation comes
\* after that attempt's vote transaction succeeded, and the attempt, like its
\* record, is in processing only after its validation passed
C32_StepsInOrder ==
    /\ \A i \in DOMAIN tasks : \A k \in DOMAIN tasks[i].log :
          /\ tasks[i].log[k][1] \in CommitCalls \cup { "submitToBackend" }
             => \E j \in 1 .. (k - 1) :
                    tasks[i].log[j] = << "validateSubmission", "valid" >>
          /\ tasks[i].log[k][1] = "submitToBackend"
             => /\ k > 1 /\ tasks[i].log[k - 1] = << "castVote", "ok" >>
                /\ tasks[i].blockchainResult # Undefined
                /\ tasks[i].blockchainResult[1].success
    /\ \A i \in DOMAIN tasks :
          Processing(i) => Has(i, "validateSubmission", "valid")
    /\ \A voteId \in DOMAIN statusCache :
          statusCache[voteId].status = "processing"
          => \E i \in DOMAIN tasks :
                 tasks[i].id = voteId /\ Has(i, "validateSubmission", "valid")
\* one attempt went through the three steps, another stopped at a vote
\* transaction that failed
C32_Witness ==
    /\ \E i \in DOMAIN tasks :
          Has(i, "castVote", "ok") /\ Called(i, "submitToBackend")
    /\ \E i \in DOMAIN tasks :
          Has(i, "castVote", "failed") /\ Done(i) /\ ~Called(i, "submitToBackend")

\* the map without the entries of the ids, the other entries as they were
Without(after, before, voteIds) ==
    /\ DOMAIN after = (DOMAIN before) \ voteIds
    /\ \A x \in DOMAIN after : after[x] = before[x]

\* C33: a call of clearOldSubmissions(maxAge) removes from the status cache,
\* the queue and the retry counters the entries of exactly the records
\* submitted more than maxAge ago and leaves the others as they are; any
\* other step leaves every record, the terminal ones in particular, in the
\* cache, where getSubmissionStatus finds it
C33_ClearExact ==
    [][ IF clears' # clears
        THEN LET age == clears'[Len(clears')].maxAge
                 old == { voteId \in DOMAIN statusCache :
                             statusCache[voteId].submittedAt < now - age }
             IN  /\ Without(statusCache', statusCache, old)
                 /\ Without(submissionQueue', submissionQueue, old)
                 /\ Without(retryAttempts', retryAttempts, old)
        ELSE \A voteId \in DOMAIN statusCache :
                 /\ getSubmissionStatus(statusCache', voteId) # Undefined
                 /\ statusCache[voteId].status \in TerminalStatuses
                    => voteId \in DOMAIN statusCache' ]_vars
\* a call removed a terminal record, with its queue entry, and kept a
\* younger one
C33_Witness ==
    \E k \in DOMAIN clears :
        /\ clears[k].removed # {} /\ clears[k].kept # {}
        /\ \E i \in DOMAIN tasks :
              /\ tasks[i].id \in clears[k].removed
              /\ EndStatus(i) \in TerminalStatuses
              /\ tasks[i].scheduled # Undefined

\* C34: a call of the hook's castVote by an authenticated user that has
\* returned, for a voter without a vote, in whose attempt no ledger or
\* backend call failed, returned success
C34_HookVoteSucceeds ==
    \A k \in DOMAIN hookCalls :
        LET t == hookCalls[k].task
        IN  ( /\ hookCalls[k].authenticated
              /\ hookCalls[k].response # Undefined
              /\ Healthy(t)
              /\ ~tasks[t].hadConfirmed
              /\ WalletOf(tasks[t].req.voterId) \notin voters )
            => hookCalls[k].response[1].success

\* C35: at most one scan executes at a time, isScanning reads true exactly
\* while one does, and a call of scanForBackend made while a scan was
\* running returned null and probed no address
C35_OneScanAtATime ==
    /\ detector.active <= 1
    /\ detector.isScanning <=> detector.active = 1
    /\ \A c \in DOMAIN detector.scanCalls :
          detector.scanCalls[c].whileScanning
          => /\ detector.scanCalls[c].result = Null
             /\ detector.scanCalls[c].probes = 0
\* a scan ended without finding the backend, a call made while a scan was
\* running was turned away, and a later scan found the backend
C35_Witness ==
    /\ ~detector.isScanning
    /\ \E a, b, c \in DOMAIN detector.scanCalls :
          /\ a < b /\ b < c
          /\ ~detector.scanCalls[a].whileScanning
          /\ detector.scanCalls[a].result = Null
          /\ detector.scanCalls[b].whileScanning
          /\ detector.scanCalls[c].result \in { "ip1", "ip2" }

\* C36: NetInfo holds at most one listener of the detector, and none when
\* the call that finished last is a stop
C36_OneSubscription ==
    /\ Cardinality(monitor.subscriptions) <= 1
    /\ monitor.lastCall = "stop" => monitor.subscriptions = {}

\* C37: once a call of updateAllServices has changed the URL, currentBaseUrl
\* is the URL that the last such call set
C37_NewestUrlKept ==
    apiManager.lastSet # "" => apiManager.currentBaseUrl = apiManager.lastSet

\* C38: the store reads authenticated exactly when it holds a token and a
\* user, and an unauthenticated store holds no token
C38_AuthConsistent ==
    /\ authStore.isAuthenticated
       <=> (authStore.token # Null /\ authStore.user # Null)
    /\ ~authStore.isAuthenticated => authStore.token = Null
====
